---- MODULE Spec2Model ----
(***************************************************************************)
(* Rally statistics of src/inference.py, analyze_video: the recovery       *)
(* sweep, the shot-speed sweep, the forward-filled per-frame timeline and  *)
(* the per-frame loop (distance travelled, ball in/out status, displays).  *)
(*                                                                         *)
(* Numbers.  The code computes with Python floats.  The model computes the *)
(* same expressions with exact rationals <<n, d>> (d > 0, lowest terms),   *)
(* and every pixel distance between two model points is an integer, so no  *)
(* comparison of the code is decided by rounding.                          *)
(***************************************************************************)
EXTENDS Integers, Sequences, FiniteSets, TLC

(***************************************************************************)
(* Bounds of the model.                                                    *)
(***************************************************************************)
\* number of video frames, len(video_frames)
TotalFrames == 3

(***************************************************************************)
(* Program constants.                                                      *)
(***************************************************************************)
FPS == 24
\* RECOVERY_RADIUS_METERS = 1.5
RECOVERY_RADIUS_METERS == <<3, 2>>
\* constants.DOUBLE_LINE_WIDTH = 10.97 (metres)
DOUBLE_LINE_WIDTH == <<1097, 100>>
\* mini_court.get_width_of_mini_court(), in pixels
MiniCourtWidth == 30

PlayerIds == {1, 2}

(***************************************************************************)
(* Exact rational arithmetic standing for the float arithmetic.            *)
(***************************************************************************)
Abs(x) == IF x < 0 THEN -x ELSE x

RECURSIVE GCD(_, _)
GCD(a, b) == IF b = 0 THEN a ELSE GCD(b, a % b)

Norm(n, d) ==
    LET g == GCD(Abs(n), Abs(d))
        s == IF d < 0 THEN -1 ELSE 1
    IN  <<(s * n) \div g, (s * d) \div g>>

Rat(k)     == <<k, 1>>
\* numerator and denominator small enough for the products below
Small(a)   == -32768 < a[1] /\ a[1] < 32768 /\ a[2] < 32768
\* common factors are taken out before the products of large terms, to
\* keep them small
RAdd(a, b) ==
    IF a = Rat(0) THEN b
    ELSE IF b = Rat(0) THEN a
    ELSE IF Small(a) /\ Small(b) THEN Norm(a[1] * b[2] + b[1] * a[2], a[2] * b[2])
    ELSE LET g == GCD(a[2], b[2])
         IN  IF g = 0 THEN Norm(a[1] * b[2] + b[1] * a[2], a[2] * b[2])
             ELSE Norm(a[1] * (b[2] \div g) + b[1] * (a[2] \div g),
                       (a[2] \div g) * b[2])
RMul(a, b) ==
    IF a = Rat(1) THEN b
    ELSE IF b = Rat(1) THEN a
    ELSE IF Small(a) /\ Small(b) THEN Norm(a[1] * b[1], a[2] * b[2])
    ELSE LET g1 == GCD(Abs(a[1]), b[2])
             g2 == GCD(Abs(b[1]), a[2])
         IN  IF g1 = 0 \/ g2 = 0 THEN Norm(a[1] * b[1], a[2] * b[2])
             ELSE Norm((a[1] \div g1) * (b[1] \div g2),
                       (a[2] \div g2) * (b[2] \div g1))
RDiv(a, b) ==
    IF b[1] > 0 THEN RMul(a, <<b[2], b[1]>>)
    ELSE Norm(a[1] * b[2], a[2] * b[1])
RLe(a, b)  == a[1] * b[2] <= b[1] * a[2]
RLt(a, b)  == a[1] * b[2] < b[1] * a[2]
RMax(a, b) == IF RLt(a, b) THEN b ELSE a

(***************************************************************************)
(* Doubles.  A Python float is an IEEE double: each operation gives the    *)
(* double nearest to the exact result, a tie to the even significand.  A   *)
(* non-negative double is modelled as <<r, e>>: r is the ideal value, the  *)
(* rational the operations would give without rounding, and e the error,   *)
(* a rational: the double is r + e * 2^-Scale(r), where 2^-Scale(r) is the *)
(* spacing of the doubles around r.  The operations below are exact for    *)
(* ideal values whose numerators and denominators stay far below 2^31.     *)
(***************************************************************************)
RSub(a, b) == RAdd(a, <<-b[1], b[2]>>)

Sign(n) == IF n > 0 THEN 1 ELSE IF n < 0 THEN -1 ELSE 0

\* the powers of two an integer holds: 2^0 .. 2^30
PowersOfTwo ==
    <<1, 2, 4, 8, 16, 32, 64, 128, 256, 512, 1024, 2048, 4096, 8192,
      16384, 32768, 65536, 131072, 262144, 524288, 1048576, 2097152,
      4194304, 8388608, 16777216, 33554432, 67108864, 134217728,
      268435456, 536870912, 1073741824>>

Pow2(k) == PowersOfTwo[k + 1]

\* 2^k as a rational, k of either sign
RPow2(k) == IF k >= 0 THEN <<Pow2(k), 1>> ELSE <<1, Pow2(-k)>>

\* the exponent e of a positive p / q: 2^e <= p / q < 2^(e + 1)
RECURSIVE FloorLog2(_, _)
FloorLog2(p, q) ==
    IF p < q THEN FloorLog2(2 * p, q) - 1
    ELSE IF p \div 2 >= q THEN FloorLog2(p \div 2, q) + 1
    ELSE 0

\* d = 2^TwoExponent(d) * OddPart(d)
RECURSIVE OddPart(_)
OddPart(d) == IF d % 2 = 0 THEN OddPart(d \div 2) ELSE d

RECURSIVE TwoExponent(_)
TwoExponent(d) == IF d % 2 = 0 THEN TwoExponent(d \div 2) + 1 ELSE 0

\* the doubles around the positive rational r are the multiples of
\* 2^-Scale(r): r * 2^Scale(r) lies in [2^52, 2^53)
Scale(r) == 52 - FloorLog2(r[1], r[2])

\* (x * 2^k) modulo m, for 0 <= x < m
RECURSIVE TimesPow2Mod(_, _, _)
TimesPow2Mod(x, k, m) ==
    IF k = 0 THEN x
    ELSE IF m <= 262144
         THEN IF k >= 12 THEN TimesPow2Mod((x * 4096) % m, k - 12, m)
              ELSE (x * Pow2(k)) % m
    ELSE TimesPow2Mod((2 * x) % m, k - 1, m)

\* r * 2^Scale(r) modulo 2, times c, where c is OddPart(r[2]): at least c
\* when the integer part of r * 2^Scale(r) is odd, and its remainder by c
\* is c times the fractional part
SignificandMod(r, c) ==
    TimesPow2Mod(r[1] % (2 * c), Scale(r) - TwoExponent(r[2]), 2 * c)

IsPowerOfTwo(r) == OddPart(r[1]) = 1 /\ OddPart(r[2]) = 1

\* the integer nearest to t plus a residual of sign sgn too small to matter
\* unless t is a tie; a true tie (sgn = 0) goes to the integer that makes
\* the significand even
NearestStep(t, odd, sgn) ==
    LET fl == t[1] \div t[2]
        r2 == 2 * (t[1] - fl * t[2])
    IN  IF r2 < t[2] THEN fl
        ELSE IF r2 > t[2] THEN fl + 1
        ELSE IF sgn > 0 THEN fl + 1
        ELSE IF sgn < 0 THEN fl
        ELSE IF (fl % 2 = 1) = odd THEN fl ELSE fl + 1

\* the error of the double nearest to r + E * 2^-Scale(r) (plus a residual
\* of sign sgn, of a smaller order), r >= 0.  Below a power of two the
\* doubles are twice as dense
DoubleErr(r, E, sgn) ==
    IF r[1] = 0 THEN Rat(0)
    ELSE LET c == OddPart(r[2])
             m == SignificandMod(r, c)
             f == Norm(m % c, c)
             t == RAdd(f, E)
         IN  IF (t[1] < 0 \/ (t[1] = 0 /\ sgn < 0)) /\ IsPowerOfTwo(r)
             THEN Norm(NearestStep(RMul(Rat(2), t), FALSE, sgn), 2)
             ELSE RSub(Rat(NearestStep(t, m >= c, sgn)), f)

\* the double of an int
FInt(n) == <<Rat(n), Rat(0)>>

\* the double nearest to the rational r: a float literal
FromRat(r) == <<r, DoubleErr(r, Rat(0), 0)>>

\* a + b
FAdd(a, b) ==
    IF a[1][1] = 0 THEN b
    ELSE IF b[1][1] = 0 THEN a
    ELSE IF a[2][1] = 0 /\ b[2][1] = 0 THEN FromRat(RAdd(a[1], b[1]))
    ELSE LET r == RAdd(a[1], b[1])
             s == Scale(r)
             E == RAdd(RMul(a[2], RPow2(s - Scale(a[1]))),
                       RMul(b[2], RPow2(s - Scale(b[1]))))
         IN  <<r, DoubleErr(r, E, 0)>>

\* a * b
FMul(a, b) ==
    IF a[1][1] = 0 \/ b[1][1] = 0 THEN FInt(0)
    ELSE IF a[2][1] = 0 /\ b[2][1] = 0 THEN FromRat(RMul(a[1], b[1]))
    ELSE LET r == RMul(a[1], b[1])
             s == Scale(r)
             E == RAdd(RMul(RMul(a[1], b[2]), RPow2(s - Scale(b[1]))),
                       RMul(RMul(b[1], a[2]), RPow2(s - Scale(a[1]))))
         IN  <<r, DoubleErr(r, E, Sign(a[2][1]) * Sign(b[2][1]))>>

\* a / b, b > 0: with x and y the relative errors of a and b, the exact
\* quotient is r * (1 + x - y) plus r * y * (y - x) / (1 + y)
FDiv(a, b) ==
    IF a[1][1] = 0 THEN FInt(0)
    ELSE IF b = FInt(1) THEN a
    ELSE IF a[2][1] = 0 /\ b[2][1] = 0 THEN FromRat(RDiv(a[1], b[1]))
    ELSE LET r  == RDiv(a[1], b[1])
             s  == Scale(r)
             sa == Scale(a[1])
             sb == Scale(b[1])
             E  == RSub(RDiv(RMul(a[2], RPow2(s - sa)), b[1]),
                        RDiv(RMul(RMul(r, b[2]), RPow2(s - sb)), b[1]))
             x  == RDiv(a[2], a[1])
             y  == RDiv(RMul(b[2], RPow2(sa - sb)), b[1])
         IN  <<r, DoubleErr(r, E, Sign(y[1]) * Sign(RSub(y, x)[1]))>>

(***************************************************************************)
(* Geometry.  The points are corners of a 3 x 4 rectangle, so every         *)
(* distance between two of them is an integer (0, 3, 4 or 5) and the       *)
(* integer square root below is the Euclidean distance.                    *)
(***************************************************************************)
Points == {<<0, 0>>, <<3, 4>>, <<0, 4>>}

\* the points the ball is seen at
BallPoints == {<<0, 0>>, <<3, 4>>}

ISqrt(n) == CHOOSE r \in 0..n : r * r <= n /\ n < (r + 1) * (r + 1)

\* utils.measure_distance(p1, p2)
measure_distance(p, q) ==
    ISqrt((p[1] - q[1]) * (p[1] - q[1]) + (p[2] - q[2]) * (p[2] - q[2]))

\* utils.convert_pixel_distance_to_meters(pixel_distance, reference_m, reference_px)
convert_pixel_distance_to_meters(px, ref_m, ref_px) ==
    RDiv(RMul(px, ref_m), ref_px)

\* the double of constants.DOUBLE_LINE_WIDTH and of the literal 3.6
DoubleLineWidth == FromRat(DOUBLE_LINE_WIDTH)
KmhPerMs == FromRat(<<18, 5>>)

\* the double convert_pixel_distance_to_meters returns for a distance of px
\* pixels (a whole number): (px * DOUBLE_LINE_WIDTH) / width
MetersDouble(px) ==
    FDiv(FMul(FInt(px), DoubleLineWidth), FInt(MiniCourtWidth))

\* mini_court.get_baseline_centers()
baseline_centers == (1 :> <<0, 0>>) @@ (2 :> <<0, 4>>)

\* mini_court.is_point_inside_court(pt)
is_point_inside_court(pt) == pt[1] < 3

\* RECOVERY_RADIUS_PX = RECOVERY_RADIUS_METERS * width / DOUBLE_LINE_WIDTH
RECOVERY_RADIUS_PX ==
    RDiv(RMul(RECOVERY_RADIUS_METERS, Rat(MiniCourtWidth)), DOUBLE_LINE_WIDTH)

(***************************************************************************)
(* Python dicts.  player_mc[f] is an insertion-ordered dict from player id *)
(* to point: a sequence of <<pid, point>> pairs with distinct ids.  A      *)
(* frame that is no key of player_mc / ball_mc / player_dets is outside    *)
(* the DOMAIN of the function that models the dict.                        *)
(***************************************************************************)
Has(d, p) == \E k \in 1..Len(d) : d[k][1] = p
Get(d, p) == d[CHOOSE k \in 1..Len(d) : d[k][1] = p][2]

\* min(players, key=lambda p: measure_distance(players[p], ball)): the first
\* key, in iteration order, whose distance is minimal
MinByDistance(players, ball) ==
    LET dist(k) == measure_distance(players[k][2], ball)
        best == CHOOSE k \in 1..Len(players) :
                    /\ \A j \in 1..Len(players) : dist(k) <= dist(j)
                    /\ \A j \in 1..(k - 1) : dist(j) # dist(k)
    IN  players[best][1]

\* mutant: the test is on player 1, so hitter 1 gets opponent 1
Opponent_TestsPlayerOne(hitter) == IF hitter = 1 THEN 1 ELSE 2

\* opponent = 1 if hitter == 2 else 2
Opponent(hitter) == IF hitter = 2 THEN 1 ELSE 2

(***************************************************************************)
(* State.                                                                  *)
(***************************************************************************)
VARIABLES
    total_frames,             \* len(video_frames)
    ball_shot_frames,         \* ball_tracker.get_ball_shot_frames(ball_dets)
    player_mc,                \* frame -> ordered dict player id -> point
    ball_mc,                  \* frame -> <<point>>  (ball_mc[f][1] is the point)
    player_dets,              \* frame -> dict player id -> bounding box
    recovery_times_by_frame,  \* start frame -> dict opponent -> seconds or -1
    stats,                    \* the snapshot sequence
    df,                       \* the per-frame timeline (df.iloc[i] is df[i + 1])
    attribution,              \* hitter / opponent used by each sweep iteration
    ri,                       \* index i of the recovery sweep
    si,                       \* index i of the shot-speed sweep
    fi,                       \* index i of the per-frame loop
    pc,                       \* position in main and analyze_video
    distance_traveled,        \* the ideal values of the doubles of the dict
    distance_traveled_err,    \* the errors of the doubles distance_traveled[p]
    distance_display,
    last_positions,
    ball_in_out_status,
    last_recovery_display,
    last_ball_speed,
    distance_log,             \* distance_traveled after each frame (history)
    biomechanics,             \* the summary analyze_video returns
    argv_given,               \* len(sys.argv) >= 2
    court_model,              \* os.path.exists(COURT_MODEL)
    llm_response,             \* what the text-generation call does
    exception,                \* the exception propagating to main, if any
    analysis,                 \* what call_gemini_llm returned
    emitted,                  \* the payloads printed, in order
    exit_status,              \* the process's exit status, -1 while it runs
    utils_recovery_times_by_frame,  \* recovery_times_by_frame of utils.py main
    utils_stats,              \* stats of utils.py main
    utils_ri,                 \* index i of the recovery sweep of utils.py
    utils_si,                 \* index i of the shot-speed sweep of utils.py
    utils_exception           \* the exception utils.py main raised, if any

vars == <<total_frames, ball_shot_frames, player_mc, ball_mc, player_dets,
          recovery_times_by_frame, stats, df, attribution, ri, si, fi, pc,
          distance_traveled, distance_traveled_err, distance_display,
          last_positions,
          ball_in_out_status, last_recovery_display, last_ball_speed,
          distance_log, biomechanics, argv_given, court_model, llm_response,
          exception, analysis, emitted, exit_status,
          utils_recovery_times_by_frame, utils_stats, utils_ri, utils_si,
          utils_exception>>

inputs == <<total_frames, ball_shot_frames, player_mc, ball_mc, player_dets,
            argv_given, court_model, llm_response>>

\* what main writes once analyze_video is over
main_vars == <<analysis, emitted, exit_status>>

\* the state of the two sweeps of tennis_analysis/utils.py main
utils_vars == <<utils_recovery_times_by_frame, utils_stats, utils_ri, utils_si,
                utils_exception>>

frame_vars == <<distance_traveled, distance_traveled_err, distance_display,
                last_positions,
                ball_in_out_status, last_recovery_display, last_ball_speed>>

(***************************************************************************)
(* The recovery sweep, lines 233-258.                                      *)
(***************************************************************************)
\* mutant: the scan includes frame end, range(start, end + 1)
RECURSIVE RecoveryScan_InclusiveEnd(_, _, _, _)
RecoveryScan_InclusiveEnd(f, start, end, opponent) ==
    IF f > end THEN Rat(-1)
    ELSE IF f \notin DOMAIN player_mc \/ ~Has(player_mc[f], opponent)
         THEN RecoveryScan_InclusiveEnd(f + 1, start, end, opponent)
    ELSE IF RLe(Rat(measure_distance(Get(player_mc[f], opponent),
                                     baseline_centers[opponent])),
                RECOVERY_RADIUS_PX)
         THEN Norm(f - start, FPS)
    ELSE RecoveryScan_InclusiveEnd(f + 1, start, end, opponent)

\* mutant: the time is (start - f) / FPS
RECURSIVE RecoveryScan_Reversed(_, _, _, _)
RecoveryScan_Reversed(f, start, end, opponent) ==
    IF f >= end THEN Rat(-1)
    ELSE IF f \notin DOMAIN player_mc \/ ~Has(player_mc[f], opponent)
         THEN RecoveryScan_Reversed(f + 1, start, end, opponent)
    ELSE IF RLe(Rat(measure_distance(Get(player_mc[f], opponent),
                                     baseline_centers[opponent])),
                RECOVERY_RADIUS_PX)
         THEN Norm(start - f, FPS)
    ELSE RecoveryScan_Reversed(f + 1, start, end, opponent)

\* the scan "for f in range(start, end)", from frame f on
RECURSIVE RecoveryScan(_, _, _, _)
RecoveryScan(f, start, end, opponent) ==
    IF f >= end THEN Rat(-1)
    ELSE IF f \notin DOMAIN player_mc \/ ~Has(player_mc[f], opponent)
         THEN RecoveryScan(f + 1, start, end, opponent)
    ELSE IF RLe(Rat(measure_distance(Get(player_mc[f], opponent),
                                     baseline_centers[opponent])),
                RECOVERY_RADIUS_PX)
         THEN Norm(f - start, FPS)
    ELSE RecoveryScan(f + 1, start, end, opponent)

\* mutant: the guard of line 236 does not test ball_mc
RecoveryResolved_PlayersOnly(bsf, i) ==
    LET start == bsf[i + 1]
    IN  /\ start \in DOMAIN player_mc
        /\ player_mc[start] # <<>>

\* whether iteration i of the recovery sweep reaches the hitter
RecoveryResolved(bsf, i) ==
    LET start == bsf[i + 1]
    IN  /\ start \in DOMAIN player_mc
        /\ start \in DOMAIN ball_mc
        /\ player_mc[start] # <<>>

\* mutant: the record is keyed by the hitter
RecoverySweepStep_KeyedByHitter(rt, bsf, i) ==
    LET start == bsf[i + 1]
        end   == bsf[i + 2]
    IN  IF ~RecoveryResolved(bsf, i) THEN rt
        ELSE LET hitter   == MinByDistance(player_mc[start], ball_mc[start][1])
                 opponent == Opponent(hitter)
             IN  (start :> (hitter :> RecoveryScan(start, start, end, opponent)))
                     @@ rt

\* recovery_times_by_frame after iteration i
RecoverySweepStep(rt, bsf, i) ==
    LET start == bsf[i + 1]
        end   == bsf[i + 2]
    IN  IF ~RecoveryResolved(bsf, i) THEN rt
        ELSE LET hitter   == MinByDistance(player_mc[start], ball_mc[start][1])
                 opponent == Opponent(hitter)
             IN  (start :> (opponent :> RecoveryScan(start, start, end, opponent)))
                     @@ rt

(***************************************************************************)
(* The shot-speed sweep, lines 265-323.                                    *)
(***************************************************************************)
ZeroPerPlayer == [p \in PlayerIds |-> Rat(0)]

\* the initial element of stats, lines 265-277.  The two totals are doubles:
\* total_shot_speed and total_player_speed hold their ideal values, the _err
\* fields their errors
ZeroStats ==
    [frame_num          |-> 0,
     number_of_shots    |-> [p \in PlayerIds |-> 0],
     total_shot_speed   |-> ZeroPerPlayer,
     last_shot_speed    |-> ZeroPerPlayer,
     total_player_speed |-> ZeroPerPlayer,
     last_player_speed  |-> ZeroPerPlayer,
     total_shot_speed_err   |-> ZeroPerPlayer,
     total_player_speed_err |-> ZeroPerPlayer]

\* dt = (end - start) / FPS
SegmentDt(start, end) == Norm(end - start, FPS)

\* speed in km/h of a pixel distance covered in dt seconds, lines 291-295, 307-312
SpeedKmh(dist_px, dt) ==
    RMul(RDiv(convert_pixel_distance_to_meters(Rat(dist_px), DOUBLE_LINE_WIDTH,
                                               Rat(MiniCourtWidth)),
              dt),
         <<18, 5>>)

\* the double (dist_m / dt) * 3.6 with dt = (end - start) / FPS, lines 282-295
\* and 307-312; its ideal value is SpeedKmh
SpeedKmhOverFrames(dist_px, frames) ==
    FMul(FDiv(MetersDouble(dist_px), FDiv(FInt(frames), FInt(FPS))),
         KmhPerMs)

\* the distances between the Points
PointDistances == {measure_distance(p, q) : p, q \in Points}

\* the speeds of the distances between the Points over the segments of a
\* video of TotalFrames frames, computed once
PointSpeeds ==
    [k \in PointDistances \X (1..TotalFrames) |->
        SpeedKmhOverFrames(k[1], k[2])] @@ <<>>

SpeedKmhDouble(dist_px, start, end) ==
    LET k == <<dist_px, end - start>>
    IN  IF k \in DOMAIN PointSpeeds THEN PointSpeeds[k]
        ELSE SpeedKmhOverFrames(dist_px, end - start)

\* mutant: a segment whose opponent is not tracked at both ends is skipped
ShotCounted_NeedsOpponent(bsf, i) ==
    LET start == bsf[i + 1]
        end   == bsf[i + 2]
    IN  /\ SegmentDt(start, end) # Rat(0)
        /\ start \in DOMAIN ball_mc
        /\ end \in DOMAIN ball_mc
        /\ start \in DOMAIN player_mc
        /\ player_mc[start] # <<>>
        /\ LET o == Opponent(MinByDistance(player_mc[start], ball_mc[start][1]))
           IN  /\ end \in DOMAIN player_mc
               /\ Has(player_mc[start], o)
               /\ Has(player_mc[end], o)

\* whether iteration i of the shot-speed sweep reaches line 316 (no continue)
ShotCounted(bsf, i) ==
    LET start == bsf[i + 1]
        end   == bsf[i + 2]
    IN  /\ SegmentDt(start, end) # Rat(0)
        /\ start \in DOMAIN ball_mc
        /\ end \in DOMAIN ball_mc
        /\ start \in DOMAIN player_mc
        /\ player_mc[start] # <<>>

\* the condition of line 306
OpponentTracked(start, end, opponent) ==
    /\ end \in DOMAIN player_mc
    /\ Has(player_mc[start], opponent)
    /\ Has(player_mc[end], opponent)

\* opp_speed, lines 306-314
OppSpeed(start, end, opponent) ==
    IF OpponentTracked(start, end, opponent)
    THEN SpeedKmhDouble(measure_distance(Get(player_mc[start], opponent),
                                         Get(player_mc[end], opponent)),
                        start, end)
    ELSE FInt(0)

\* mutant: the hitter's total is assigned, not added to
NextSnapshot_TotalOverwritten(prev, start, hitter, opponent, ball_speed, opp_speed) ==
    [prev EXCEPT
        !.frame_num                    = start,
        !.number_of_shots[hitter]      = @ + 1,
        !.total_shot_speed[hitter]     = ball_speed[1],
        !.total_shot_speed_err[hitter] = ball_speed[2],
        !.last_shot_speed[hitter]      = ball_speed[1],
        !.total_player_speed[opponent] = RAdd(@, opp_speed[1]),
        !.total_player_speed_err[opponent] =
            FAdd(<<prev.total_player_speed[opponent], @>>, opp_speed)[2],
        !.last_player_speed[opponent]  = opp_speed[1]]

\* mutant: the movement speed is credited to the hitter
NextSnapshot_MovementToHitter(prev, start, hitter, opponent, ball_speed, opp_speed) ==
    [prev EXCEPT
        !.frame_num                  = start,
        !.number_of_shots[hitter]    = @ + 1,
        !.total_shot_speed[hitter]   = RAdd(@, ball_speed[1]),
        !.total_shot_speed_err[hitter] =
            FAdd(<<prev.total_shot_speed[hitter], @>>, ball_speed)[2],
        !.last_shot_speed[hitter]    = ball_speed[1],
        !.total_player_speed[hitter] = RAdd(@, opp_speed[1]),
        !.total_player_speed_err[hitter] =
            FAdd(<<prev.total_player_speed[hitter], @>>, opp_speed)[2],
        !.last_player_speed[hitter]  = opp_speed[1]]

\* cur, lines 316-322; ball_speed and opp_speed are doubles
NextSnapshot(prev, start, hitter, opponent, ball_speed, opp_speed) ==
    [prev EXCEPT
        !.frame_num                    = start,
        !.number_of_shots[hitter]      = @ + 1,
        !.total_shot_speed[hitter]     = RAdd(@, ball_speed[1]),
        !.total_shot_speed_err[hitter] =
            FAdd(<<prev.total_shot_speed[hitter], @>>, ball_speed)[2],
        !.last_shot_speed[hitter]      = ball_speed[1],
        !.total_player_speed[opponent] = RAdd(@, opp_speed[1]),
        !.total_player_speed_err[opponent] =
            FAdd(<<prev.total_player_speed[opponent], @>>, opp_speed)[2],
        !.last_player_speed[opponent]  = opp_speed[1]]

\* stats after iteration i
ShotSweepStep(st, bsf, i) ==
    LET start == bsf[i + 1]
        end   == bsf[i + 2]
    IN  IF ~ShotCounted(bsf, i) THEN st
        ELSE LET ball_speed ==
                     SpeedKmhDouble(
                         measure_distance(ball_mc[start][1], ball_mc[end][1]),
                         start, end)
                 hitter   == MinByDistance(player_mc[start], ball_mc[start][1])
                 opponent == Opponent(hitter)
             IN  Append(st, NextSnapshot(st[Len(st)], start, hitter, opponent,
                                         ball_speed,
                                         OppSpeed(start, end, opponent)))

\* the whole shot-speed sweep from iteration i on, lines 280-323
RECURSIVE ShotSweep(_, _, _)
ShotSweep(st, bsf, i) ==
    IF i >= Len(bsf) - 1 THEN st
    ELSE ShotSweep(ShotSweepStep(st, bsf, i), bsf, i + 1)

\* the whole recovery sweep from iteration i on, lines 233-258
RECURSIVE RecoverySweep(_, _, _)
RecoverySweep(rt, bsf, i) ==
    IF i >= Len(bsf) - 1 THEN rt
    ELSE RecoverySweep(RecoverySweepStep(rt, bsf, i), bsf, i + 1)

(***************************************************************************)
(* Exceptions of the two sweeps: an iteration that passes the guards of    *)
(* the code and then reads a key that is not there.                        *)
(***************************************************************************)
NoException == "none"

\* lines 239-245 once the guards of lines 236-241 are passed
RecoveryException(bsf, i) ==
    LET start == bsf[i + 1]
    IN  IF ~RecoveryResolved(bsf, i) THEN NoException
        ELSE IF start \notin DOMAIN player_mc THEN "KeyError"
        ELSE IF player_mc[start] = <<>> THEN "ValueError"
        ELSE IF start \notin DOMAIN ball_mc THEN "KeyError"
        ELSE NoException

\* lines 291-303 once the guards of lines 283-299 are passed
ShotException(bsf, i) ==
    LET start == bsf[i + 1]
        end   == bsf[i + 2]
    IN  IF ~ShotCounted(bsf, i) THEN NoException
        ELSE IF start \notin DOMAIN ball_mc \/ end \notin DOMAIN ball_mc
             THEN "KeyError"
        ELSE IF start \notin DOMAIN player_mc THEN "KeyError"
        ELSE IF player_mc[start] = <<>> THEN "ValueError"
        ELSE NoException

(***************************************************************************)
(* The two sweeps of tennis_analysis/utils.py main, lines 233-253 and      *)
(* 272-308: the same sweeps with no guard on a missing key.                *)
(***************************************************************************)
\* whether the scan of lines 244-251 reads player_mc[f] at a frame f that is
\* not a key, before it breaks
RECURSIVE UtilsScanRaises(_, _, _)
UtilsScanRaises(f, end, opponent) ==
    IF f >= end THEN FALSE
    ELSE IF f \notin DOMAIN player_mc THEN TRUE
    ELSE IF ~Has(player_mc[f], opponent)
         THEN UtilsScanRaises(f + 1, end, opponent)
    ELSE IF RLe(Rat(measure_distance(Get(player_mc[f], opponent),
                                     baseline_centers[opponent])),
                RECOVERY_RADIUS_PX)
         THEN FALSE
    ELSE UtilsScanRaises(f + 1, end, opponent)

\* mutant: the scan starts at the frame after start
RECURSIVE UtilsRecoveryScan_AfterStart(_, _, _, _)
UtilsRecoveryScan_AfterStart(f, start, end, opponent) ==
    IF f + 1 >= end THEN Rat(-1)
    ELSE IF f + 1 \notin DOMAIN player_mc \/ ~Has(player_mc[f + 1], opponent)
         THEN UtilsRecoveryScan_AfterStart(f + 1, start, end, opponent)
    ELSE IF RLe(Rat(measure_distance(Get(player_mc[f + 1], opponent),
                                     baseline_centers[opponent])),
                RECOVERY_RADIUS_PX)
         THEN Norm(f + 1 - start, FPS)
    ELSE UtilsRecoveryScan_AfterStart(f + 1, start, end, opponent)

\* recovery_time, lines 242-251, for the scan "for f in range(start, end)"
\* from frame f on
RECURSIVE UtilsRecoveryScan(_, _, _, _)
UtilsRecoveryScan(f, start, end, opponent) ==
    IF f >= end THEN Rat(-1)
    ELSE IF ~Has(player_mc[f], opponent)
         THEN UtilsRecoveryScan(f + 1, start, end, opponent)
    ELSE IF RLe(Rat(measure_distance(Get(player_mc[f], opponent),
                                     baseline_centers[opponent])),
                RECOVERY_RADIUS_PX)
         THEN Norm(f - start, FPS)
    ELSE UtilsRecoveryScan(f + 1, start, end, opponent)

\* what iteration i of the recovery sweep raises, lines 236-251
UtilsRecoveryException(bsf, i) ==
    LET start == bsf[i + 1]
        end   == bsf[i + 2]
    IN  IF start \notin DOMAIN player_mc THEN "KeyError"
        ELSE IF player_mc[start] = <<>> THEN "ValueError"
        ELSE IF start \notin DOMAIN ball_mc THEN "KeyError"
        ELSE IF UtilsScanRaises(
                    start, end,
                    Opponent(MinByDistance(player_mc[start], ball_mc[start][1])))
             THEN "KeyError"
        ELSE NoException

\* recovery_times_by_frame after iteration i, lines 233-253
UtilsRecoverySweepStep(rt, bsf, i) ==
    LET start    == bsf[i + 1]
        end      == bsf[i + 2]
        hitter   == MinByDistance(player_mc[start], ball_mc[start][1])
        opponent == Opponent(hitter)
    IN  (start :> (opponent :> UtilsRecoveryScan(start, start, end, opponent)))
            @@ rt

\* what iteration i of the shot-speed sweep raises, lines 274-295
UtilsShotException(bsf, i) ==
    LET start == bsf[i + 1]
        end   == bsf[i + 2]
    IN  IF SegmentDt(start, end) = Rat(0) THEN NoException
        ELSE IF start \notin DOMAIN ball_mc \/ end \notin DOMAIN ball_mc
             THEN "KeyError"
        ELSE IF start \notin DOMAIN player_mc THEN "KeyError"
        ELSE IF player_mc[start] = <<>> THEN "ValueError"
        ELSE LET o == Opponent(MinByDistance(player_mc[start], ball_mc[start][1]))
             IN  IF \/ ~Has(player_mc[start], o)
                    \/ end \notin DOMAIN player_mc
                    \/ ~Has(player_mc[end], o)
                 THEN "KeyError"
                 ELSE NoException

\* opp_speed, lines 290-295
UtilsOppSpeed(start, end, opponent) ==
    SpeedKmhDouble(measure_distance(Get(player_mc[start], opponent),
                                    Get(player_mc[end], opponent)),
                   start, end)

\* cur, lines 297-303; ball_speed and opp_speed are doubles
UtilsNextSnapshot(prev, start, hitter, opponent, ball_speed, opp_speed) ==
    [prev EXCEPT
        !.frame_num                    = start,
        !.number_of_shots[hitter]      = @ + 1,
        !.total_shot_speed[hitter]     = RAdd(@, ball_speed[1]),
        !.total_shot_speed_err[hitter] =
            FAdd(<<prev.total_shot_speed[hitter], @>>, ball_speed)[2],
        !.last_shot_speed[hitter]      = ball_speed[1],
        !.total_player_speed[opponent] = RAdd(@, opp_speed[1]),
        !.total_player_speed_err[opponent] =
            FAdd(<<prev.total_player_speed[opponent], @>>, opp_speed)[2],
        !.last_player_speed[opponent]  = opp_speed[1]]

\* stats after iteration i, lines 272-304
UtilsShotSweepStep(st, bsf, i) ==
    LET start == bsf[i + 1]
        end   == bsf[i + 2]
    IN  IF SegmentDt(start, end) = Rat(0) THEN st
        ELSE LET ball_speed ==
                     SpeedKmhDouble(
                         measure_distance(ball_mc[start][1], ball_mc[end][1]),
                         start, end)
                 hitter   == MinByDistance(player_mc[start], ball_mc[start][1])
                 opponent == Opponent(hitter)
             IN  Append(st, UtilsNextSnapshot(st[Len(st)], start, hitter, opponent,
                                              ball_speed,
                                              UtilsOppSpeed(start, end, opponent)))

(***************************************************************************)
(* The per-frame timeline, lines 326-339.                                  *)
(***************************************************************************)
\* pandas division: x / 0 is inf (<<1, 0>>) and 0 / 0 is NaN (<<0, 0>>)
PandasDiv(total, count) ==
    IF count # 0 THEN RDiv(total, Rat(count))
    ELSE IF total[1] = 0 THEN <<0, 0>> ELSE <<1, 0>>

\* the error of the double that division gives, the total being the double
\* <<total, err>> and the count a whole number; inf and NaN have none
PandasDivErr(total, err, count) ==
    IF count # 0 THEN FDiv(<<total, err>>, FInt(count))[2] ELSE Rat(0)

\* mutant: the zero count is not replaced
Replace01_Kept(n) == n

\* Series.replace(0, 1)
Replace01(n) == IF n = 0 THEN 1 ELSE n

\* mutant: a player's movement total is divided by the player's own shots
WithAverages_OwnCount(row) ==
    [frame_num            |-> row.frame_num,
     number_of_shots      |-> row.number_of_shots,
     total_shot_speed     |-> row.total_shot_speed,
     last_shot_speed      |-> row.last_shot_speed,
     total_player_speed   |-> row.total_player_speed,
     last_player_speed    |-> row.last_player_speed,
     total_shot_speed_err   |-> row.total_shot_speed_err,
     total_player_speed_err |-> row.total_player_speed_err,
     average_shot_speed   |->
         [p \in PlayerIds |->
             PandasDiv(row.total_shot_speed[p], Replace01(row.number_of_shots[p]))],
     average_shot_speed_err |->
         [p \in PlayerIds |->
             PandasDivErr(row.total_shot_speed[p], row.total_shot_speed_err[p],
                          Replace01(row.number_of_shots[p]))],
     average_player_speed |->
         [p \in PlayerIds |->
             PandasDiv(row.total_player_speed[p],
                       Replace01(row.number_of_shots[p]))],
     average_player_speed_err |->
         [p \in PlayerIds |->
             PandasDivErr(row.total_player_speed[p], row.total_player_speed_err[p],
                          Replace01(row.number_of_shots[p]))]]

\* the four average columns, lines 330-339, doubles as the totals are
WithAverages(row) ==
    [frame_num            |-> row.frame_num,
     number_of_shots      |-> row.number_of_shots,
     total_shot_speed     |-> row.total_shot_speed,
     last_shot_speed      |-> row.last_shot_speed,
     total_player_speed   |-> row.total_player_speed,
     last_player_speed    |-> row.last_player_speed,
     total_shot_speed_err   |-> row.total_shot_speed_err,
     total_player_speed_err |-> row.total_player_speed_err,
     average_shot_speed   |->
         [p \in PlayerIds |->
             PandasDiv(row.total_shot_speed[p], Replace01(row.number_of_shots[p]))],
     average_shot_speed_err |->
         [p \in PlayerIds |->
             PandasDivErr(row.total_shot_speed[p], row.total_shot_speed_err[p],
                          Replace01(row.number_of_shots[p]))],
     average_player_speed |->
         [p \in PlayerIds |->
             PandasDiv(row.total_player_speed[p],
                       Replace01(row.number_of_shots[Opponent(p)]))],
     average_player_speed_err |->
         [p \in PlayerIds |->
             PandasDivErr(row.total_player_speed[p], row.total_player_speed_err[p],
                          Replace01(row.number_of_shots[Opponent(p)]))]]

\* pd.merge(frames_df, df, on="frame_num", how="left").ffill().fillna(0), from
\* frame f on: a frame takes every row of st with its frame_num, in the order of
\* st; a frame with no such row takes the columns of the row above it (zeros if
\* there is none)
RECURSIVE MergeFfill(_, _, _, _)
MergeFfill(st, f, n, above) ==
    IF f >= n THEN <<>>
    ELSE LET matches == SelectSeq(st, LAMBDA s : s.frame_num = f)
             rows    == IF matches = <<>>
                        THEN <<[above EXCEPT !.frame_num = f]>>
                        ELSE matches
         IN  rows \o MergeFfill(st, f + 1, n, rows[Len(rows)])

Timeline(st, n) ==
    LET merged == MergeFfill(st, 0, n, ZeroStats)
    IN  [k \in 1..Len(merged) |-> WithAverages(merged[k])]

(***************************************************************************)
(* The per-frame loop, lines 361-424.                                      *)
(***************************************************************************)
\* DIST_UPDATE_FRAMES = int(2 * FPS)
DIST_UPDATE_FRAMES == 2 * FPS

\* None
None == <<>>

\* player_dets[i] when "i in player_dets and player_dets[i]", else the empty dict
FrameDets(i) == IF i \in DOMAIN player_dets THEN player_dets[i] ELSE <<>>

\* player p has a bounding box of at least four numbers in the frame
Detected(dets, p) == p \in DOMAIN dets /\ Len(dets[p]) >= 4

\* center = (int((x1 + x2) / 2), int((y1 + y2) / 2)), coordinates >= 0
Center(bbox) == <<(bbox[1] + bbox[3]) \div 2, (bbox[2] + bbox[4]) \div 2>>

\* mutant: a first detection is measured from the origin
DistanceAfter_FromOrigin(dist, last, dets, p) ==
    IF Detected(dets, p)
    THEN RAdd(dist[p],
              convert_pixel_distance_to_meters(
                  Rat(measure_distance(IF last[p] = None THEN <<0, 0>> ELSE last[p],
                                       Center(dets[p]))),
                  DOUBLE_LINE_WIDTH, Rat(MiniCourtWidth)))
    ELSE dist[p]

\* distance_traveled[p] after the frame, lines 375-386
DistanceAfter(dist, last, dets, p) ==
    IF Detected(dets, p) /\ last[p] # None
    THEN RAdd(dist[p],
              convert_pixel_distance_to_meters(
                  Rat(measure_distance(last[p], Center(dets[p]))),
                  DOUBLE_LINE_WIDTH, Rat(MiniCourtWidth)))
    ELSE dist[p]

\* the error of the double distance_traveled[p] after the frame, line 386
DistanceErrAfter(dist, err, last, dets, p) ==
    IF Detected(dets, p) /\ last[p] # None
    THEN FAdd(<<dist[p], err[p]>>,
              MetersDouble(measure_distance(last[p], Center(dets[p]))))[2]
    ELSE err[p]

\* last_positions[p] after the frame, line 388
LastPositionAfter(last, dets, p) ==
    IF Detected(dets, p) THEN Center(dets[p]) ELSE last[p]

\* mutant: the displayed distance follows the accumulator at every frame
DisplayAfter_EveryFrame(shown, dist, i) == dist

\* distance_display after frame i, lines 390-392
DisplayAfter(shown, dist, i) ==
    IF i % DIST_UPDATE_FRAMES = 0 THEN dist ELSE shown

\* mutant: the first shot frame is a bounce frame too
BounceFrames_WithFirst(bsf) == {bsf[k] : k \in 1..Len(bsf)}

\* bounce_frames = set(ball_shot_frames[1:])
BounceFrames(bsf) == {bsf[k] : k \in 2..Len(bsf)}

\* ball_in_out_status after frame i, lines 395-398
BallStatusAfter(status, bsf, i) ==
    IF i \in BounceFrames(bsf) /\ i \in DOMAIN ball_mc
    THEN IF is_point_inside_court(ball_mc[i][1]) THEN "IN" ELSE "OUT"
    ELSE status

\* last_recovery_display after frame i, lines 401-403
RecoveryDisplayAfter(shown, rt, i) ==
    IF i \in DOMAIN rt
    THEN [p \in PlayerIds |-> IF p \in DOMAIN rt[i] THEN rt[i][p] ELSE shown[p]]
    ELSE shown

\* last_ball_speed of frame i, lines 415-416
LastBallSpeed(frame, i) ==
    RMax(frame[i + 1].last_shot_speed[1], frame[i + 1].last_shot_speed[2])

(***************************************************************************)
(* The summary, lines 435-469.                                             *)
(***************************************************************************)
\* 10 ^ k
RECURSIVE Pow10(_)
Pow10(k) == IF k = 0 THEN 1 ELSE 10 * Pow10(k - 1)

\* round(d, k) of a non-negative double d: the value the double holds, to
\* the nearest multiple of 10^-k. The double is on the same side of every tie
\* as its ideal value; when the ideal value is itself a tie, the double goes
\* to the side it lies on, and to the even multiple when it holds the ideal
\* value exactly. inf and NaN are left as they are
Round(d, k) ==
    IF d[1][2] = 0 THEN d[1]
    ELSE LET y == d[1]
             n == y[1] * Pow10(k)
             q == n \div y[2]
             r == n - q * y[2]
             m == IF 2 * r < y[2] THEN q
                  ELSE IF 2 * r > y[2] THEN q + 1
                  ELSE IF d[2][1] > 0 THEN q + 1
                  ELSE IF d[2][1] < 0 THEN q
                  ELSE IF q % 2 = 0 THEN q ELSE q + 1
         IN  Norm(m, Pow10(k))

\* sum of the values rt[s][p] over the keys s of S
RECURSIVE SumOver(_, _, _)
SumOver(rt, S, p) ==
    IF S = {} THEN Rat(0)
    ELSE LET s == CHOOSE x \in S : TRUE
         IN  RAdd(rt[s][p], SumOver(rt, S \ {s}, p))

\* mutant: the sentinel values are averaged with the others
AvgRecovery_WithSentinel(rt, p) ==
    LET S == {s \in DOMAIN rt : p \in DOMAIN rt[s]}
    IN  IF S = {} THEN FInt(0)
        ELSE <<RDiv(SumOver(rt, S, p), Rat(Cardinality(S))), Rat(0)>>

\* sum(p_recovery_times), line 452: the doubles (f - start) / FPS of the keys
\* S added one by one to the int 0, in the order of the dict, which is the
\* order of the frames since ball_shot_frames never decreases
RECURSIVE SumDoubles(_, _, _)
SumDoubles(rt, S, p) ==
    IF S = {} THEN FInt(0)
    ELSE LET s == CHOOSE x \in S : \A y \in S : y <= x
         IN  FAdd(SumDoubles(rt, S \ {s}, p), FromRat(rt[s][p]))

\* avg_recovery_p, lines 449-453, a double (the int 0 when p has no value)
AvgRecovery(rt, p) ==
    LET S == {s \in DOMAIN rt : p \in DOMAIN rt[s] /\ RLe(Rat(0), rt[s][p])}
    IN  IF S = {} THEN FInt(0)
        ELSE FDiv(SumDoubles(rt, S, p), FInt(Cardinality(S)))

\* mutant: final_stats is the first row of the timeline
Summary_FirstRow(frame, rt, dist, n) ==
    LET final_stats == frame[1]
    IN  [total_shots      |-> final_stats.number_of_shots[1]
                                  + final_stats.number_of_shots[2],
         shots            |-> final_stats.number_of_shots,
         avg_shot_speed   |->
             [p \in PlayerIds |->
                 Round(<<final_stats.average_shot_speed[p],
                         final_stats.average_shot_speed_err[p]>>, 1)],
         avg_move_speed   |->
             [p \in PlayerIds |->
                 Round(<<final_stats.average_player_speed[p],
                         final_stats.average_player_speed_err[p]>>, 1)],
         distance_traveled |-> [p \in PlayerIds |-> Round(dist[p], 1)],
         avg_recovery_time |-> [p \in PlayerIds |-> Round(AvgRecovery(rt, p), 2)],
         total_frames     |-> n,
         duration_seconds |-> Round(FDiv(FInt(n), FInt(FPS)), 1)]

\* biomechanics, lines 435-469 (detected_strokes repeats the two shot counts);
\* dist[p] is the double distance_traveled[p]
Summary(frame, rt, dist, n) ==
    LET final_stats == frame[Len(frame)]
    IN  [total_shots      |-> final_stats.number_of_shots[1]
                                  + final_stats.number_of_shots[2],
         shots            |-> final_stats.number_of_shots,
         avg_shot_speed   |->
             [p \in PlayerIds |->
                 Round(<<final_stats.average_shot_speed[p],
                         final_stats.average_shot_speed_err[p]>>, 1)],
         avg_move_speed   |->
             [p \in PlayerIds |->
                 Round(<<final_stats.average_player_speed[p],
                         final_stats.average_player_speed_err[p]>>, 1)],
         distance_traveled |-> [p \in PlayerIds |-> Round(dist[p], 1)],
         avg_recovery_time |-> [p \in PlayerIds |-> Round(AvgRecovery(rt, p), 2)],
         total_frames     |-> n,
         duration_seconds |-> Round(FDiv(FInt(n), FInt(FPS)), 1)]

(***************************************************************************)
(* Inputs.  The detections and the shot frames are produced before the     *)
(* statistics run and never written by them.                               *)
(***************************************************************************)
RECURSIVE SortedSeq(_)
SortedSeq(S) ==
    IF S = {} THEN <<>>
    ELSE LET m == CHOOSE x \in S : \A y \in S : x <= y
         IN  <<m>> \o SortedSeq(S \ {m})

\* the strictly increasing lists of frames of a video of n frames
ShotLists(n) == {SortedSeq(S) : S \in SUBSET (0..(n - 1))}

\* the points a player is seen at: player 1 anywhere, player 2 at its baseline
PlayerPoints(p) == IF p = 1 THEN {<<0, 0>>, <<3, 4>>} ELSE {baseline_centers[2]}

\* the dict of a frame of player_mc with player 1 at x and player 2 at y
\* (None: the player has no position in the frame)
DictOf(x, y) ==
    (IF x = <<>> THEN <<>> ELSE <<<<1, x>>>>) \o (IF y = <<>> THEN <<>> ELSE <<<<2, y>>>>)

\* the dicts of one frame of player_mc
PlayerDicts ==
    {DictOf(x, y) : x \in PlayerPoints(1) \cup {<<>>},
                    y \in PlayerPoints(2) \cup {<<>>}}

\* the functions from a subset of frames F to the values V
PartialMaps(F, V) == UNION {[D -> V] : D \in SUBSET F}

\* the frames of player_mc that the sweeps can read: those from the first
\* shot frame to the last
RallyFrames(bsf) ==
    IF bsf = <<>> THEN {} ELSE bsf[1]..bsf[Len(bsf)]

ShotFrameSet(bsf) == {bsf[k] : k \in 1..Len(bsf)}

\* bounding boxes: centre (0, 0), centre (3, 4) after truncation, and a box
\* of fewer than four numbers
Boxes == {<<0, 0, 0, 0>>, <<0, 0, 7, 9>>, <<0, 0>>}

\* the detections of a video in which both players stand still
StillDets(n) == [f \in 0..(n - 1) |-> [p \in PlayerIds |-> <<0, 0, 7, 9>>]]

\* analyze_video is past its loading steps: a video path was given, the
\* court model exists, the text generation answers with JSON
InitCall ==
    /\ argv_given = TRUE
    /\ court_model = TRUE
    /\ llm_response = "json"

InitState ==
    /\ recovery_times_by_frame = <<>>
    /\ stats = <<ZeroStats>>
    /\ df = <<>>
    /\ attribution = <<>>
    /\ ri = 0
    /\ si = 0
    /\ fi = 0
    /\ distance_traveled = ZeroPerPlayer
    /\ distance_traveled_err = ZeroPerPlayer
    /\ distance_display = ZeroPerPlayer
    /\ last_positions = [p \in PlayerIds |-> None]
    /\ ball_in_out_status = "IN"
    /\ last_recovery_display = ZeroPerPlayer
    /\ last_ball_speed = Rat(0)
    /\ distance_log = <<>>
    /\ biomechanics = None
    /\ exception = NoException
    /\ analysis = None
    /\ emitted = <<>>
    /\ exit_status = -1
    /\ utils_recovery_times_by_frame = <<>>
    /\ utils_stats = <<ZeroStats>>
    /\ utils_ri = 0
    /\ utils_si = 0
    /\ utils_exception = NoException

\* the state at line 233, the inputs loaded
InitOutputs ==
    /\ pc = "stats"
    /\ InitState

\* what the text-generation call may do: answer with JSON, raise, answer
\* with empty content, answer with text that is no JSON
LlmResponses == {"json", "raises", "empty", "unparseable"}

\* a run of main from its first line: with or without a video path, with or
\* without the court model, on a video of no frame or of total_frames frames,
\* with no shot or one segment
InitMain ==
    /\ argv_given \in BOOLEAN
    /\ court_model \in BOOLEAN
    /\ llm_response \in LlmResponses
    /\ total_frames \in {0, TotalFrames}
    /\ ball_shot_frames \in IF total_frames = 0 THEN {<<>>} ELSE {<<>>, <<0, 1>>}
    /\ player_mc = [f \in 0..(total_frames - 1) |->
                       DictOf(baseline_centers[1], baseline_centers[2])]
    /\ ball_mc \in [ShotFrameSet(ball_shot_frames) -> {<<pt>> : pt \in BallPoints}]
    /\ player_dets = StillDets(total_frames)
    /\ pc = "main"
    /\ InitState

\* any strictly increasing shot list; in every frame of the rally each player
\* has a position or none, and at every shot frame the ball has a position or
\* none.  Frames that no statement of the statistics reads (player_mc outside
\* the rally, ball_mc off the shot frames) are left out of the dicts.
Init ==
    /\ total_frames = TotalFrames
    /\ ball_shot_frames \in ShotLists(total_frames)
    /\ player_mc \in [RallyFrames(ball_shot_frames) -> PlayerDicts]
    /\ ball_mc \in PartialMaps(ShotFrameSet(ball_shot_frames),
                               {<<pt>> : pt \in BallPoints})
    /\ player_dets = StillDets(total_frames)
    /\ InitCall
    /\ InitOutputs

\* the dicts of one frame of player_dets
DetDicts == UNION {[D -> Boxes] : D \in SUBSET PlayerIds}

\* any detections, frame by frame (a frame may be no key of player_dets, a
\* player no key of the frame's dict, a box too short), over a rally of one
\* segment in which nobody moves
InitDets ==
    /\ total_frames = TotalFrames
    /\ ball_shot_frames = <<0, 1>>
    /\ player_mc = [f \in 0..1 |-> DictOf(baseline_centers[1], baseline_centers[2])]
    /\ ball_mc = [f \in 0..1 |-> <<baseline_centers[1]>>]
    /\ player_dets \in PartialMaps(0..(total_frames - 1), DetDicts)
    /\ InitCall
    /\ InitOutputs

\* any strictly increasing shot list with any pattern of gaps: a frame of the
\* rally is no key of player_mc, or its dict is empty, or holds one player, or
\* both; a shot frame is a key of ball_mc or not
InitGaps ==
    /\ total_frames = TotalFrames
    /\ ball_shot_frames \in ShotLists(total_frames)
    /\ player_mc \in PartialMaps(RallyFrames(ball_shot_frames),
                                  {DictOf(x, y) : x \in {baseline_centers[1], None},
                                                  y \in {baseline_centers[2], None}})
    /\ ball_mc \in PartialMaps(ShotFrameSet(ball_shot_frames),
                               {<<pt>> : pt \in BallPoints})
    /\ player_dets = StillDets(total_frames)
    /\ InitCall
    /\ InitOutputs

\* the frames of a video of n frames
VideoFrames(n) == 0..(n - 1)

\* both variants are given the same positions: at each frame of the video
\* both players, player 2 alone or no dict at all, and a ball or none
InitVariants ==
    /\ total_frames = TotalFrames
    /\ ball_shot_frames \in ShotLists(total_frames)
    /\ player_mc \in PartialMaps(VideoFrames(total_frames),
                                  {DictOf(x, baseline_centers[2]) :
                                       x \in PlayerPoints(1) \cup {None}})
    /\ ball_mc \in PartialMaps(VideoFrames(total_frames),
                               {<<pt>> : pt \in BallPoints})
    /\ player_dets = StillDets(total_frames)
    /\ InitCall
    /\ InitOutputs

\* the dicts of a frame that hold both players, in either insertion order
BothOrders ==
    {DictOf(x, y) : x \in Points, y \in Points}
        \cup {<<<<2, y>>, <<1, x>>>> : x \in Points, y \in Points}

\* one segment; both players have a position in each frame, anywhere, and
\* the dict of a frame holds them in either order
InitTie ==
    /\ total_frames = TotalFrames
    /\ ball_shot_frames = <<0, 1>>
    /\ player_mc \in [0..1 -> BothOrders]
    /\ ball_mc \in [0..1 -> {<<pt>> : pt \in BallPoints}]
    /\ player_dets = StillDets(total_frames)
    /\ InitCall
    /\ InitOutputs

\* the list l with its k-th entry repeated
Repeated(l, k) == SubSeq(l, 1, k) \o SubSeq(l, k, Len(l))

\* a shot list with one entry repeated, at any position; player 1 at its
\* baseline centre or away from it, player 2 at its own
InitDup ==
    /\ total_frames = TotalFrames
    /\ ball_shot_frames \in UNION {{Repeated(l, k) : k \in 1..Len(l)} :
                                       l \in ShotLists(total_frames)}
    /\ player_mc \in [RallyFrames(ball_shot_frames) ->
                         {DictOf(x, baseline_centers[2]) : x \in PlayerPoints(1)}]
    /\ ball_mc \in [ShotFrameSet(ball_shot_frames) -> {<<pt>> : pt \in BallPoints}]
    /\ player_dets = StillDets(total_frames)
    /\ InitCall
    /\ InitOutputs

\* the frames of a long video whose detections vary: the first two and
\* those from the last before the second display update on
VaryingFrames(n) == {0, 1} \cup ((DIST_UPDATE_FRAMES - 1)..(n - 1))

\* a video long enough for a second display update; in a varying frame
\* player 1 is at one of two places or the frame is no key of player_dets,
\* everywhere else both players stand still
InitLong ==
    /\ total_frames = DIST_UPDATE_FRAMES + TotalFrames - 1
    /\ ball_shot_frames = <<0, 1>>
    /\ player_mc = [f \in 0..1 |-> DictOf(baseline_centers[1], baseline_centers[2])]
    /\ ball_mc = [f \in 0..1 |-> <<baseline_centers[1]>>]
    /\ \E D \in SUBSET VaryingFrames(total_frames) :
           \E m \in [D -> {<<0, 0, 0, 0>>, <<0, 0, 7, 9>>}] :
               player_dets =
                   [f \in (0..(total_frames - 1)) \ (VaryingFrames(total_frames) \ D) |->
                       [p \in PlayerIds |->
                           IF p = 1 /\ f \in D THEN m[f] ELSE <<0, 0, 0, 0>>]]
    /\ InitCall
    /\ InitOutputs

\* a rally of two segments, the first two frames long, in which player 1 is
\* at its baseline centre or away from it frame by frame and player 2 stays
\* at its own
InitSummary ==
    /\ total_frames = TotalFrames + 1
    /\ ball_shot_frames = <<0, 2, total_frames - 1>>
    /\ player_mc \in [0..(total_frames - 1) ->
                         {DictOf(x, baseline_centers[2]) : x \in PlayerPoints(1)}]
    /\ ball_mc \in [ShotFrameSet(ball_shot_frames) -> {<<pt>> : pt \in BallPoints}]
    /\ player_dets = StillDets(total_frames)
    /\ InitCall
    /\ InitOutputs

(***************************************************************************)
(* Actions: one per loop iteration.                                        *)
(***************************************************************************)
Segments == Len(ball_shot_frames) - 1

\* the record of the hitter and opponent an iteration used
Attributed(sweep, i) ==
    LET start  == ball_shot_frames[i + 1]
        hitter == MinByDistance(player_mc[start], ball_mc[start][1])
    IN  [sweep |-> sweep, segment |-> i, start |-> start,
         end |-> ball_shot_frames[i + 2],
         hitter |-> hitter, opponent |-> Opponent(hitter)]

\* one iteration of "for i in range(len(ball_shot_frames) - 1)", line 233
RecoveryStep ==
    /\ pc = "stats"
    /\ ri < Segments
    /\ IF RecoveryException(ball_shot_frames, ri) # NoException
       THEN /\ exception' = RecoveryException(ball_shot_frames, ri)
            /\ pc' = "except"
            /\ UNCHANGED <<recovery_times_by_frame, attribution, ri>>
       ELSE /\ recovery_times_by_frame' =
                   RecoverySweepStep(recovery_times_by_frame, ball_shot_frames, ri)
            /\ attribution' =
                   IF RecoveryResolved(ball_shot_frames, ri)
                   THEN Append(attribution, Attributed("recovery", ri))
                   ELSE attribution
            /\ ri' = ri + 1
            /\ UNCHANGED <<pc, exception>>
    /\ UNCHANGED <<inputs, utils_vars, stats, df, si, fi, frame_vars, distance_log,
                   biomechanics, main_vars>>

\* one iteration of "for i in range(len(ball_shot_frames) - 1)", line 280
ShotStep ==
    /\ pc = "stats"
    /\ ri >= Segments
    /\ si < Segments
    /\ IF ShotException(ball_shot_frames, si) # NoException
       THEN /\ exception' = ShotException(ball_shot_frames, si)
            /\ pc' = "except"
            /\ UNCHANGED <<stats, attribution, si>>
       ELSE /\ stats' = ShotSweepStep(stats, ball_shot_frames, si)
            /\ attribution' =
                   IF ShotCounted(ball_shot_frames, si)
                   THEN Append(attribution, Attributed("shots", si))
                   ELSE attribution
            /\ si' = si + 1
            /\ UNCHANGED <<pc, exception>>
    /\ UNCHANGED <<inputs, utils_vars, recovery_times_by_frame, df, ri, fi, frame_vars,
                   distance_log, biomechanics, main_vars>>

\* lines 326-339
BuildTimeline ==
    /\ pc = "stats"
    /\ ri >= Segments
    /\ si >= Segments
    /\ df' = Timeline(stats, total_frames)
    /\ pc' = "frames"
    /\ UNCHANGED <<inputs, utils_vars, recovery_times_by_frame, stats, attribution, ri, si, fi,
                   frame_vars, distance_log, biomechanics, exception, main_vars>>

\* one iteration of "for i, frame in enumerate(frames)", line 370
FrameStep ==
    /\ pc = "frames"
    /\ fi < total_frames
    /\ LET dets == FrameDets(fi)
           dist == [p \in PlayerIds |->
                       DistanceAfter(distance_traveled, last_positions, dets, p)]
       IN  /\ distance_traveled' = dist
           /\ distance_traveled_err' =
                  [p \in PlayerIds |->
                      DistanceErrAfter(distance_traveled, distance_traveled_err,
                                       last_positions, dets, p)]
           /\ last_positions' =
                  [p \in PlayerIds |-> LastPositionAfter(last_positions, dets, p)]
           /\ distance_display' = DisplayAfter(distance_display, dist, fi)
           /\ distance_log' = Append(distance_log, dist)
    /\ ball_in_out_status' =
           BallStatusAfter(ball_in_out_status, ball_shot_frames, fi)
    /\ last_recovery_display' =
           RecoveryDisplayAfter(last_recovery_display, recovery_times_by_frame, fi)
    /\ last_ball_speed' = LastBallSpeed(df, fi)
    /\ fi' = fi + 1
    /\ UNCHANGED <<inputs, utils_vars, recovery_times_by_frame, stats, df, attribution, ri, si,
                   pc, biomechanics, exception, main_vars>>

\* the doubles of distance_traveled
DistanceDoubles ==
    [p \in PlayerIds |-> <<distance_traveled[p], distance_traveled_err[p]>>]

\* the loop is over, lines 426-479
Finish ==
    /\ pc = "frames"
    /\ fi >= total_frames
    /\ biomechanics' = Summary(df, recovery_times_by_frame, DistanceDoubles,
                                total_frames)
    /\ pc' = "done"
    /\ UNCHANGED <<inputs, utils_vars, recovery_times_by_frame, stats, df, attribution, ri, si,
                   fi, frame_vars, distance_log, exception, main_vars>>

(***************************************************************************)
(* main and call_gemini_llm, lines 486-681.                                *)
(***************************************************************************)
\* int(x) of a non-negative number
Trunc(x) == x[1] \div x[2]

Min(a, b) == IF a < b THEN a ELSE b

\* the fallback analysis, lines 562-600: the two scores and the numbers its
\* sentences quote (the drill plan is constant text)
Fallback(b) ==
    LET p1_speed  == b.avg_shot_speed[1]
        p2_speed  == b.avg_shot_speed[2]
        total     == RAdd(p1_speed, p2_speed)
        avg_speed == IF RLt(Rat(0), total) THEN RDiv(total, Rat(2)) ELSE Rat(50)
    IN  [dna       |-> [technical |-> Min(100, Trunc(RMul(avg_speed, <<3, 2>>))),
                        tactical  |-> Min(100, 70 + b.total_shots * 2),
                        summary   |-> <<b.total_shots, b.duration_seconds,
                                        p1_speed, p2_speed>>],
         strengths |-> <<p1_speed, b.distance_traveled[2], b.total_shots>>,
         fixes     |-> <<b.avg_recovery_time[1]>>]

\* json.loads of the answer when it is JSON: whatever the service wrote
ParsedAnswer ==
    [dna |-> [technical |-> 0, tactical |-> 0, summary |-> <<>>],
     strengths |-> <<>>, fixes |-> <<>>]

\* mutant: text that is no JSON makes the call raise
call_gemini_llm_Propagates(b, response) ==
    IF response = "json" THEN [raised |-> FALSE, value |-> ParsedAnswer]
    ELSE IF response = "unparseable" THEN [raised |-> TRUE, value |-> None]
    ELSE [raised |-> FALSE, value |-> Fallback(b)]

\* call_gemini_llm, lines 486-600: the try block returns the parsed answer;
\* an exception is caught at line 558 and empty content falls through line
\* 545, both to the fallback
call_gemini_llm(b, response) ==
    IF response = "json" THEN [raised |-> FALSE, value |-> ParsedAnswer]
    ELSE [raised |-> FALSE, value |-> Fallback(b)]

\* lines 609-616
MainStart ==
    /\ pc = "main"
    /\ IF argv_given
       THEN /\ pc' = "load"
            /\ UNCHANGED <<emitted, exit_status>>
       ELSE /\ emitted' = Append(emitted, [status |-> "error",
                                           message |-> "No input file provided",
                                           usage |-> "usage"])
            /\ exit_status' = 1
            /\ pc' = "exit"
    /\ UNCHANGED <<inputs, utils_vars, recovery_times_by_frame, stats, df, attribution, ri, si,
                   fi, frame_vars, distance_log, biomechanics, exception, analysis>>

\* analyze_video up to line 229: the court model is required (line 178) and
\* the first frame is read (line 207)
LoadInputs ==
    /\ pc = "load"
    /\ IF ~court_model
       THEN exception' = "FileNotFoundError" /\ pc' = "except"
       ELSE IF total_frames = 0
       THEN exception' = "IndexError" /\ pc' = "except"
       ELSE exception' = exception /\ pc' = "stats"
    /\ UNCHANGED <<inputs, utils_vars, recovery_times_by_frame, stats, df, attribution, ri, si,
                   fi, frame_vars, distance_log, biomechanics, main_vars>>

\* line 637
CallLlm ==
    /\ pc = "done"
    /\ LET r == call_gemini_llm(biomechanics, llm_response)
       IN  IF r.raised
           THEN exception' = "Exception" /\ pc' = "except" /\ analysis' = analysis
           ELSE exception' = exception /\ pc' = "emit" /\ analysis' = r.value
    /\ UNCHANGED <<inputs, utils_vars, recovery_times_by_frame, stats, df, attribution, ri, si,
                   fi, frame_vars, distance_log, biomechanics, emitted, exit_status>>

\* lines 640-659: the success payload, then the end of main
EmitSuccess ==
    /\ pc = "emit"
    /\ emitted' = Append(emitted, [status |-> "success",
                                   biomechanics |-> biomechanics,
                                   analysis |-> analysis])
    /\ exit_status' = 0
    /\ pc' = "exit"
    /\ UNCHANGED <<inputs, utils_vars, recovery_times_by_frame, stats, df, attribution, ri, si,
                   fi, frame_vars, distance_log, biomechanics, exception, analysis>>

\* the two except clauses, lines 661-681
HandleException ==
    /\ pc = "except"
    /\ emitted' = Append(emitted,
                         [status |-> "error",
                          message |-> exception,
                          type |-> IF exception = "FileNotFoundError"
                                   THEN "file_not_found"
                                   ELSE "processing_error"])
    /\ exit_status' = 1
    /\ pc' = "exit"
    /\ UNCHANGED <<inputs, utils_vars, recovery_times_by_frame, stats, df, attribution, ri, si,
                   fi, frame_vars, distance_log, biomechanics, exception, analysis>>

\* utils.py: one iteration of "for i in range(len(ball_shot_frames) - 1)",
\* line 233
UtilsRecoveryStep ==
    /\ utils_exception = NoException
    /\ utils_ri < Segments
    /\ IF UtilsRecoveryException(ball_shot_frames, utils_ri) # NoException
       THEN /\ utils_exception' =
                   UtilsRecoveryException(ball_shot_frames, utils_ri)
            /\ UNCHANGED <<utils_recovery_times_by_frame, utils_ri>>
       ELSE /\ utils_recovery_times_by_frame' =
                   UtilsRecoverySweepStep(utils_recovery_times_by_frame,
                                          ball_shot_frames, utils_ri)
            /\ utils_ri' = utils_ri + 1
            /\ UNCHANGED utils_exception
    /\ UNCHANGED <<inputs, recovery_times_by_frame, stats, df, attribution, ri, si,
                   fi, pc, frame_vars, distance_log, biomechanics, exception,
                   main_vars, utils_stats, utils_si>>

\* utils.py: one iteration of "for i in range(len(ball_shot_frames) - 1)",
\* line 272
UtilsShotStep ==
    /\ utils_exception = NoException
    /\ utils_ri >= Segments
    /\ utils_si < Segments
    /\ IF UtilsShotException(ball_shot_frames, utils_si) # NoException
       THEN /\ utils_exception' = UtilsShotException(ball_shot_frames, utils_si)
            /\ UNCHANGED <<utils_stats, utils_si>>
       ELSE /\ utils_stats' =
                   UtilsShotSweepStep(utils_stats, ball_shot_frames, utils_si)
            /\ utils_si' = utils_si + 1
            /\ UNCHANGED utils_exception
    /\ UNCHANGED <<inputs, recovery_times_by_frame, stats, df, attribution, ri, si,
                   fi, pc, frame_vars, distance_log, biomechanics, exception,
                   main_vars, utils_recovery_times_by_frame, utils_ri>>

Next == RecoveryStep \/ ShotStep \/ BuildTimeline \/ FrameStep \/ Finish

Spec == Init /\ [][Next]_vars

\* the same program on the inputs of InitDets
SpecDets == InitDets /\ [][Next]_vars

\* main as a whole, analyze_video and call_gemini_llm within it
NextMain ==
    \/ MainStart \/ LoadInputs
    \/ RecoveryStep \/ ShotStep \/ BuildTimeline \/ FrameStep \/ Finish
    \/ CallLlm \/ EmitSuccess \/ HandleException

SpecMain == InitMain /\ [][NextMain]_vars

\* the same program on the inputs of InitGaps
SpecGaps == InitGaps /\ [][Next]_vars

\* the same program on the inputs of InitTie
SpecTie == InitTie /\ [][Next]_vars

\* the same program on the inputs of InitDup
SpecDup == InitDup /\ [][Next]_vars

\* the same program on the inputs of InitLong
SpecLong == InitLong /\ [][Next]_vars

\* the same program on the inputs of InitSummary
SpecSummary == InitSummary /\ [][Next]_vars

\* the two sweeps of inference.py and those of utils.py on the same inputs
NextVariants == RecoveryStep \/ ShotStep \/ UtilsRecoveryStep \/ UtilsShotStep

SpecVariants == InitVariants /\ [][NextVariants]_vars

(***************************************************************************)
(* Properties.                                                             *)
(***************************************************************************)
\* the statistics columns of a snapshot or of a timeline row
StatColumns(r) ==
    [number_of_shots    |-> r.number_of_shots,
     total_shot_speed   |-> r.total_shot_speed,
     last_shot_speed    |-> r.last_shot_speed,
     total_player_speed |-> r.total_player_speed,
     last_player_speed  |-> r.last_player_speed]

\* the snapshots the shot-speed sweep appended (stats without its initial
\* all-zero element) and the iterations that appended them, in order
SegmentSnapshots == SubSeq(stats, 2, Len(stats))
ShotAttribution == SelectSeq(attribution, LAMBDA a : a.sweep = "shots")
RecoveryAttribution == SelectSeq(attribution, LAMBDA a : a.sweep = "recovery")

\* the statistics frame i is to show: those of the segment snapshot with the
\* greatest frame_num <= i, all zero when there is none
LatestSnapshot(i) ==
    LET at == {k \in 1..Len(SegmentSnapshots) : SegmentSnapshots[k].frame_num <= i}
    IN  IF at = {} THEN StatColumns(ZeroStats)
        ELSE StatColumns(SegmentSnapshots[CHOOSE k \in at : \A j \in at : j <= k])

\* C1: once the timeline is built, every frame i in [0, total_frames) has a
\* row df.iloc[i], and that row holds the statistics of the segment snapshot
\* with the greatest frame_num <= i (all zero when there is none).
C1_RowIsLatestSnapshot ==
    pc # "stats" =>
        \A i \in 0..(total_frames - 1) :
            /\ i + 1 <= Len(df)
            /\ StatColumns(df[i + 1]) = LatestSnapshot(i)

\* C2: in both sweeps, every iteration that resolved a hitter used a hitter and
\* an opponent that differ and are the two players 1 and 2.
C2_HitterAndOpponentAreTheTwoPlayers ==
    \A k \in 1..Len(attribution) :
        /\ attribution[k].hitter # attribution[k].opponent
        /\ {attribution[k].hitter, attribution[k].opponent} = {1, 2}

\* C2 witness: both sweeps resolved the hitter of a segment at whose start
\* frame only one player has a position.
C2_Witness ==
    \E j, k \in 1..Len(attribution) :
        /\ attribution[j].sweep = "recovery"
        /\ attribution[k].sweep = "shots"
        /\ Len(player_mc[attribution[j].start]) = 1
        /\ Len(player_mc[attribution[k].start]) = 1

\* a <= b on every accumulated column
TotalsLe(a, b) ==
    \A p \in PlayerIds :
        /\ a.number_of_shots[p] <= b.number_of_shots[p]
        /\ RLe(a.total_shot_speed[p], b.total_shot_speed[p])
        /\ RLe(a.total_player_speed[p], b.total_player_speed[p])

\* C3: number_of_shots, total_shot_speed and total_player_speed of each player
\* never decrease from a snapshot of stats to the next, nor from a row of the
\* timeline to the next.
C3_TotalsNonDecreasing ==
    /\ \A k \in 1..(Len(stats) - 1) : TotalsLe(stats[k], stats[k + 1])
    /\ \A k \in 1..(Len(df) - 1) : TotalsLe(df[k], df[k + 1])

\* C3 witness: the timeline is built from three snapshots, and a shot total
\* and a movement total have grown.
C3_Witness ==
    /\ pc = "frames"
    /\ Len(stats) >= 3
    /\ \E p \in PlayerIds :
           RLt(stats[2].total_shot_speed[p], stats[Len(stats)].total_shot_speed[p])
    /\ \E p \in PlayerIds : RLt(Rat(0), stats[Len(stats)].total_player_speed[p])

\* two snapshots agree except on frame_num, the shot columns of player h and
\* the movement columns of player o
SameExcept(a, b, h, o) ==
    \A p \in PlayerIds :
        /\ p # h => /\ a.number_of_shots[p] = b.number_of_shots[p]
                    /\ a.total_shot_speed[p] = b.total_shot_speed[p]
                    /\ a.last_shot_speed[p] = b.last_shot_speed[p]
        /\ p # o => /\ a.total_player_speed[p] = b.total_player_speed[p]
                    /\ a.last_player_speed[p] = b.last_player_speed[p]

\* C4: a step that changes stats appends one snapshot, leaves every earlier
\* snapshot as it was, and the new snapshot differs from the one before it
\* only in frame_num, the hitter's shot columns and the opponent's movement
\* columns.
C4_AppendOnlyFrameEffect ==
    [][stats' # stats =>
          /\ Len(stats') = Len(stats) + 1
          /\ SubSeq(stats', 1, Len(stats)) = stats
          /\ LET a == Attributed("shots", si)
             IN  /\ a.hitter # a.opponent
                 /\ SameExcept(stats[Len(stats)], stats'[Len(stats')],
                               a.hitter, a.opponent)]_vars

\* C4 witness: a snapshot was appended after another one, and it changed the
\* hitter's shot columns and the opponent's movement columns.
C4_Witness ==
    /\ Len(stats) >= 3
    /\ \E p \in PlayerIds :
           /\ stats[3].number_of_shots[p] # stats[2].number_of_shots[p]
           /\ stats[3].last_shot_speed[p] # stats[2].last_shot_speed[p]
           /\ stats[3].total_player_speed[Opponent(p)]
                  # stats[2].total_player_speed[Opponent(p)]

\* the frames of [start, end) at which player p has a position within the
\* recovery radius of its baseline centre
RecoveredAt(start, end, p) ==
    {f \in start..(end - 1) :
        /\ f \in DOMAIN player_mc
        /\ Has(player_mc[f], p)
        /\ RLe(Rat(measure_distance(Get(player_mc[f], p), baseline_centers[p])),
               RECOVERY_RADIUS_PX)}

\* C5: for every segment whose hitter the recovery sweep resolved, the record
\* at key start has exactly one entry, for the opponent, and its value is
\* (f - start) / FPS for the least frame f of [start, end) at which the
\* opponent is within the recovery radius of its baseline centre, -1 if there
\* is no such frame.
C5_RecoveryRecord ==
    \A k \in 1..Len(RecoveryAttribution) :
        LET a == RecoveryAttribution[k]
            F == RecoveredAt(a.start, a.end, a.opponent)
        IN  /\ a.start \in DOMAIN recovery_times_by_frame
            /\ DOMAIN recovery_times_by_frame[a.start] = {a.opponent}
            /\ a.opponent # a.hitter
            /\ recovery_times_by_frame[a.start][a.opponent] =
                   IF F = {} THEN Rat(-1)
                   ELSE RDiv(Rat((CHOOSE f \in F : \A g \in F : f <= g) - a.start),
                             Rat(FPS))

\* C5 witness: the opponent of a segment has a position outside the radius
\* at start and recovered at a later frame of [start, end).
C5_Witness ==
    /\ ri >= Segments
    /\ \E k \in 1..Len(RecoveryAttribution) :
           LET a == RecoveryAttribution[k]
           IN  /\ Has(player_mc[a.start], a.opponent)
               /\ a.start \notin RecoveredAt(a.start, a.end, a.opponent)
               /\ RLt(Rat(0), recovery_times_by_frame[a.start][a.opponent])

\* C6: every value stored in recovery_times_by_frame is >= 0 or exactly -1.
C6_RecoveryValuesNonNegativeOrSentinel ==
    \A s \in DOMAIN recovery_times_by_frame :
        \A p \in DOMAIN recovery_times_by_frame[s] :
            LET v == recovery_times_by_frame[s][p]
            IN  RLe(Rat(0), v) \/ v = Rat(-1)

\* C6 witness: the sweep is over and stored a zero for one segment and the
\* sentinel -1 for another.
C6_Witness ==
    /\ ri >= Segments
    /\ \E s, t \in DOMAIN recovery_times_by_frame :
           /\ \E p \in DOMAIN recovery_times_by_frame[s] :
                  recovery_times_by_frame[s][p] = Rat(0)
           /\ \E p \in DOMAIN recovery_times_by_frame[t] :
                  recovery_times_by_frame[t][p] = Rat(-1)

\* C8: in every row of the timeline the average shot speed of a player with
\* number_of_shots 0 is exactly 0, and no average shot speed is the result of
\* a division by zero (inf or NaN).
C8_ZeroShotsAverageZero ==
    \A k \in 1..Len(df) :
        \A p \in PlayerIds :
            /\ df[k].average_shot_speed[p][2] # 0
            /\ df[k].number_of_shots[p] = 0 => df[k].average_shot_speed[p] = Rat(0)

\* C8 witness: a row of the timeline in which one player has no shot and the
\* other has a positive average shot speed.
C8_Witness ==
    \E k \in 1..Len(df) :
        \E p \in PlayerIds :
            /\ df[k].number_of_shots[p] = 0
            /\ RLt(Rat(0), df[k].average_shot_speed[Opponent(p)])

\* C9: an iteration of the shot-speed sweep over a segment whose ball position
\* is known at start and at end and whose hitter is resolved, but whose
\* opponent has no position at start or at end, appends a snapshot that
\* counts the hitter's shot and records its speed, sets the opponent's
\* last_player_speed to 0 and leaves the opponent's total_player_speed.
C9_ShotCountedWithoutOpponent ==
    [][(/\ pc = "stats" /\ ri >= Segments /\ si < Segments /\ si' = si + 1
        /\ ball_shot_frames[si + 1] \in DOMAIN ball_mc
        /\ ball_shot_frames[si + 2] \in DOMAIN ball_mc
        /\ ball_shot_frames[si + 1] \in DOMAIN player_mc
        /\ player_mc[ball_shot_frames[si + 1]] # <<>>
        /\ LET start == ball_shot_frames[si + 1]
               end   == ball_shot_frames[si + 2]
               o     == Opponent(MinByDistance(player_mc[start], ball_mc[start][1]))
           IN  \/ ~Has(player_mc[start], o)
               \/ end \notin DOMAIN player_mc
               \/ ~Has(player_mc[end], o))
       => LET start == ball_shot_frames[si + 1]
              end   == ball_shot_frames[si + 2]
              h     == MinByDistance(player_mc[start], ball_mc[start][1])
              o     == Opponent(h)
              speed == SpeedKmh(measure_distance(ball_mc[start][1], ball_mc[end][1]),
                                SegmentDt(start, end))
              old   == stats[Len(stats)]
              new   == stats'[Len(stats')]
          IN  /\ Len(stats') = Len(stats) + 1
              /\ new.frame_num = start
              /\ new.number_of_shots[h] = old.number_of_shots[h] + 1
              /\ new.last_shot_speed[h] = speed
              /\ new.total_shot_speed[h] = RAdd(old.total_shot_speed[h], speed)
              /\ new.last_player_speed[o] = Rat(0)
              /\ new.total_player_speed[o] = old.total_player_speed[o]]_vars

\* C9 witness: the last snapshot is that of a segment whose opponent has a
\* position at start and none at end; the opponent's movement total, positive
\* from an earlier segment, is kept and its last movement speed is 0.
C9_Witness ==
    /\ Len(stats) >= 3
    /\ ShotAttribution # <<>>
    /\ LET a == ShotAttribution[Len(ShotAttribution)]
           s == stats[Len(stats)]
       IN  /\ s.frame_num = a.start
           /\ Has(player_mc[a.start], a.opponent)
           /\ ~Has(player_mc[a.end], a.opponent)
           /\ RLt(Rat(0), s.last_shot_speed[a.hitter])
           /\ s.last_player_speed[a.opponent] = Rat(0)
           /\ RLt(Rat(0), s.total_player_speed[a.opponent])

\* frame i is a shot frame other than the first one of the list
IsBounceFrame(i) ==
    /\ \E k \in 1..Len(ball_shot_frames) : ball_shot_frames[k] = i
    /\ i # ball_shot_frames[1]

\* C10: a step of the per-frame loop changes ball_in_out_status only at a
\* bounce frame; at a bounce frame with a known ball position the status
\* becomes IN if the point is inside the court and OUT if not; at any frame
\* that is no bounce frame, the first shot frame included, it keeps its value.
C10_StatusChangesOnlyAtBounce ==
    [][/\ ball_in_out_status' # ball_in_out_status
          => pc = "frames" /\ fi' = fi + 1 /\ IsBounceFrame(fi)
       /\ (pc = "frames" /\ fi' = fi + 1 /\ IsBounceFrame(fi) /\ fi \in DOMAIN ball_mc)
          => ball_in_out_status' =
                 IF is_point_inside_court(ball_mc[fi][1]) THEN "IN" ELSE "OUT"
       /\ (pc = "frames" /\ fi' = fi + 1 /\ ~IsBounceFrame(fi))
          => ball_in_out_status' = ball_in_out_status]_vars

\* C10 witness: the ball was outside the court at the first shot frame, which
\* left the status IN; a bounce frame then set it to OUT, and the frame after
\* that bounce frame, no bounce frame itself, has kept OUT.
C10_Witness ==
    /\ pc = "frames"
    /\ fi >= 2
    /\ ball_in_out_status = "OUT"
    /\ IsBounceFrame(fi - 2)
    /\ ~IsBounceFrame(fi - 1)
    /\ ball_shot_frames[1] \in DOMAIN ball_mc
    /\ ~is_point_inside_court(ball_mc[ball_shot_frames[1]][1])

\* C7: in a step of the per-frame loop no player's distance_traveled
\* decreases; a player with no detection in the frame keeps distance_traveled
\* and last_positions; a player detected for the first time keeps
\* distance_traveled and gets the centre of its box as last_positions.
C7_DistanceAccumulates ==
    [][(pc = "frames" /\ fi' = fi + 1) =>
          \A p \in PlayerIds :
              /\ RLe(distance_traveled[p], distance_traveled'[p])
              /\ (fi \notin DOMAIN player_dets \/ p \notin DOMAIN player_dets[fi])
                     => /\ distance_traveled'[p] = distance_traveled[p]
                        /\ last_positions'[p] = last_positions[p]
              /\ (/\ fi \in DOMAIN player_dets
                  /\ p \in DOMAIN player_dets[fi]
                  /\ Len(player_dets[fi][p]) >= 4
                  /\ last_positions[p] = None)
                     => /\ distance_traveled'[p] = distance_traveled[p]
                        /\ last_positions'[p] = Center(player_dets[fi][p])]_vars

\* C7 witness: a player was first detected away from the origin, then missed
\* for a frame, then detected elsewhere, and has travelled a positive distance.
C7_Witness ==
    /\ pc = "frames"
    /\ fi = 3
    /\ \E p \in PlayerIds :
           /\ 0 \in DOMAIN player_dets /\ p \in DOMAIN player_dets[0]
           /\ Len(player_dets[0][p]) >= 4
           /\ Center(player_dets[0][p]) # <<0, 0>>
           /\ (1 \notin DOMAIN player_dets \/ p \notin DOMAIN player_dets[1])
           /\ 2 \in DOMAIN player_dets /\ p \in DOMAIN player_dets[2]
           /\ RLt(Rat(0), distance_traveled[p])

\* the keys of recovery_times_by_frame whose record holds a value >= 0 for p
NonSentinelKeys(p) ==
    {s \in DOMAIN recovery_times_by_frame :
        /\ p \in DOMAIN recovery_times_by_frame[s]
        /\ recovery_times_by_frame[s][p] # Rat(-1)
        /\ RLe(Rat(0), recovery_times_by_frame[s][p])}

\* the arithmetic mean of the values >= 0 recorded for p, 0 if there is none
MeanRecovery(p) ==
    IF NonSentinelKeys(p) = {} THEN Rat(0)
    ELSE RDiv(SumOver(recovery_times_by_frame, NonSentinelKeys(p), p),
              Rat(Cardinality(NonSentinelKeys(p))))

\* C11 as stated: the summary's average recovery time of each player is
\* exactly the arithmetic mean of the player's recorded values >= 0, and 0
\* when there is none.
C11_AverageIsExactMean ==
    pc = "done" =>
        \A p \in PlayerIds : biomechanics.avg_recovery_time[p] = MeanRecovery(p)

\* C11 amended: the summary's average recovery time of each player is the
\* arithmetic mean of the player's recorded values >= 0 (the sentinel -1 left
\* out of sum and count) rounded to two decimal places: a whole number of
\* hundredths at most half a hundredth away from the mean; it is 0 when the
\* player has no value >= 0.
C11_AverageIsRoundedMean ==
    pc = "done" =>
        \A p \in PlayerIds :
            LET v    == biomechanics.avg_recovery_time[p]
                mean == MeanRecovery(p)
            IN  /\ NonSentinelKeys(p) = {} => v = Rat(0)
                /\ \E m \in 0..(100 * total_frames) :
                       /\ v = RDiv(Rat(m), Rat(100))
                       /\ 2 * Abs(100 * mean[1] - m * mean[2]) <= mean[2]

\* C11 witness: a player has a sentinel in one record and a positive value in
\* another, and a positive average in the summary that is not the exact mean.
C11_Witness ==
    /\ pc = "done"
    /\ \E p \in PlayerIds :
           /\ \E s \in DOMAIN recovery_times_by_frame :
                  /\ p \in DOMAIN recovery_times_by_frame[s]
                  /\ recovery_times_by_frame[s][p] = Rat(-1)
           /\ RLt(Rat(0), biomechanics.avg_recovery_time[p])
           /\ biomechanics.avg_recovery_time[p] # MeanRecovery(p)

\* the fields of a complete summary
SummaryFields ==
    {"total_shots", "shots", "avg_shot_speed", "avg_move_speed",
     "distance_traveled", "avg_recovery_time", "total_frames", "duration_seconds"}

\* C12: while main runs nothing has been emitted; when it has ended, exactly
\* one payload has been emitted, which is either a success payload holding the
\* complete summary, with exit status 0, or an error payload with status
\* "error" and a kind, with a non-zero exit status.
C12_OneOutcome ==
    /\ pc # "exit" => emitted = <<>> /\ exit_status = -1
    /\ pc = "exit" =>
          /\ Len(emitted) = 1
          /\ \/ /\ emitted[1].status = "success"
                /\ DOMAIN emitted[1].biomechanics = SummaryFields
                /\ exit_status = 0
             \/ /\ emitted[1].status = "error"
                /\ "type" \in DOMAIN emitted[1]
                /\ exit_status > 0

\* C13: when the text-generation call raises, answers with empty content or
\* with text that is no JSON, call_gemini_llm raises nothing and returns the
\* fallback computed from the summary, and the run ends with one success
\* payload holding that fallback and exit status 0.
C13_FallbackOnServiceFailure ==
    (llm_response # "json" /\ biomechanics # None) =>
        /\ pc # "except"
        /\ pc \in {"emit", "exit"} => analysis = Fallback(biomechanics)
        /\ pc = "exit" =>
              /\ emitted = <<[status |-> "success",
                              biomechanics |-> biomechanics,
                              analysis |-> Fallback(biomechanics)]>>
              /\ exit_status = 0

\* C13 witness: a run whose text generation answered with text that is no
\* JSON ended with a success payload for a rally with a shot.
C13_Witness ==
    /\ pc = "exit"
    /\ llm_response = "unparseable"
    /\ Len(emitted) = 1
    /\ emitted[1].status = "success"
    /\ emitted[1].biomechanics.total_shots > 0
    /\ emitted[1].analysis.dna.tactical > 70

\* C14: when the court model is missing or the shot list is empty, no summary
\* is produced and the run ends with an error payload and a non-zero exit
\* status.
C14_MissingInputIsFatal ==
    (argv_given /\ (~court_model \/ ball_shot_frames = <<>>)) =>
        /\ biomechanics = None
        /\ \A k \in 1..Len(emitted) : emitted[k].status = "error"
        /\ pc = "exit" => Len(emitted) = 1 /\ exit_status > 0

\* frame f has no player position or no ball position
NothingAt(f) ==
    \/ f \notin DOMAIN player_mc
    \/ player_mc[f] = <<>>
    \/ f \notin DOMAIN ball_mc

\* C15: whatever detections are missing, the statistics phase raises nothing;
\* a segment with no player position or no ball position at its start gets no
\* recovery record and no snapshot; any other segment gets a recovery record,
\* and a snapshot exactly when the ball has a position at its end.
C15_GapsRaiseNothing ==
    /\ exception = NoException
    /\ pc # "except"
    /\ \A i \in 0..(ri - 1) :
           ball_shot_frames[i + 1] \in DOMAIN recovery_times_by_frame
               <=> ~NothingAt(ball_shot_frames[i + 1])
    /\ \A i \in 0..(si - 1) :
           (\E k \in 1..Len(SegmentSnapshots) :
                SegmentSnapshots[k].frame_num = ball_shot_frames[i + 1])
               <=> /\ ~NothingAt(ball_shot_frames[i + 1])
                   /\ ball_shot_frames[i + 2] \in DOMAIN ball_mc

\* C15 witness: a run over two segments is over; the first segment's start
\* frame is no key of player_mc and left no record; the second has a player
\* and the ball at its start and no ball at its end, and left a recovery
\* record and no snapshot.
C15_Witness ==
    /\ pc = "done"
    /\ Len(ball_shot_frames) = 3
    /\ ball_shot_frames[1] \notin DOMAIN player_mc
    /\ ~NothingAt(ball_shot_frames[2])
    /\ ball_shot_frames[3] \notin DOMAIN ball_mc
    /\ DOMAIN recovery_times_by_frame = {ball_shot_frames[2]}
    /\ Len(stats) = 1

\* C16: in the summary each player's shot count is the number of segments
\* that appended a snapshot and whose hitter is the player, and total_shots is
\* the sum of the two counts and the number of appended snapshots.
C16_ShotCounts ==
    pc = "done" =>
        /\ \A p \in PlayerIds :
               biomechanics.shots[p] =
                   Cardinality({k \in 1..Len(ShotAttribution) :
                                    ShotAttribution[k].hitter = p})
        /\ biomechanics.total_shots = biomechanics.shots[1] + biomechanics.shots[2]
        /\ biomechanics.total_shots = Len(SegmentSnapshots)
        /\ Len(ShotAttribution) = Len(SegmentSnapshots)

\* C16 witness: of two segments one was skipped and one appended a snapshot,
\* hit by player 2; the summary counts one shot, for player 2.
C16_Witness ==
    /\ pc = "done"
    /\ Segments = 2
    /\ Len(SegmentSnapshots) = 1
    /\ biomechanics.shots[2] = 1
    /\ biomechanics.total_shots = 1

\* the distance from player p to the ball at frame f
DistanceToBall(f, p) == measure_distance(Get(player_mc[f], p), ball_mc[f][1])

\* C17: in both sweeps, when both players have a position at the start frame
\* of a segment, the hitter is the player nearer to the ball at that frame,
\* and player 1 when the two distances are equal, whatever the order of the
\* two players in the frame's dict.
C17_NearestThenLowerId ==
    \A k \in 1..Len(attribution) :
        LET a == attribution[k]
        IN  (Has(player_mc[a.start], 1) /\ Has(player_mc[a.start], 2)) =>
                a.hitter = IF DistanceToBall(a.start, 1) <= DistanceToBall(a.start, 2)
                           THEN 1 ELSE 2

\* the list l without the entries that repeat the entry before them
RECURSIVE Dedup(_)
Dedup(l) ==
    IF Len(l) <= 1 THEN l
    ELSE IF l[1] = l[2] THEN Dedup(Tail(l))
    ELSE <<l[1]>> \o Dedup(Tail(l))

\* C18: a run over a shot list with a repeated entry, at any position, ends
\* with the snapshot sequence, the recovery records and the summary of the run
\* over the same list without the repetition.
C18_DuplicateContributesNothing ==
    pc = "done" =>
        LET plain == Dedup(ball_shot_frames)
            st    == ShotSweep(<<ZeroStats>>, plain, 0)
            rt    == RecoverySweep(<<>>, plain, 0)
        IN  /\ exception = NoException
            /\ stats = st
            /\ recovery_times_by_frame = rt
            /\ biomechanics = Summary(Timeline(st, total_frames), rt,
                                      DistanceDoubles, total_frames)

\* the latest frame j <= i with j mod (2 * FPS) = 0
LatestDisplayFrame(i) == i - (i % (2 * FPS))

\* player p is detected in frames k - 1 and k, at different places
MovedAt(k, p) ==
    /\ k - 1 \in DOMAIN player_dets /\ k \in DOMAIN player_dets
    /\ p \in DOMAIN player_dets[k - 1] /\ p \in DOMAIN player_dets[k]
    /\ Center(player_dets[k - 1][p]) # Center(player_dets[k][p])

\* C19: after frame i the displayed distance of each player is the value the
\* accumulator had after the latest frame j <= i with j mod (2 * FPS) = 0 and
\* is at most the accumulator; the accumulator grows at every frame in which
\* the player has moved, whatever the frame number.
C19_DisplayIsThrottledAccumulator ==
    (pc \in {"frames", "done"} /\ fi >= 1) =>
        /\ distance_display = distance_log[LatestDisplayFrame(fi - 1) + 1]
        /\ distance_traveled = distance_log[fi]
        /\ \A p \in PlayerIds :
               /\ RLe(distance_display[p], distance_traveled[p])
               /\ \A k \in 1..(fi - 1) :
                      MovedAt(k, p) => RLt(distance_log[k][p], distance_log[k + 1][p])

\* C19 witness: the display was updated a second time, to a positive
\* distance, and the accumulator has grown since.
C19_Witness ==
    /\ pc = "frames"
    /\ fi = 2 * FPS + 2
    /\ RLt(Rat(0), distance_display[1])
    /\ RLt(distance_display[1], distance_traveled[1])
    /\ RLt(distance_log[2 * FPS][1], distance_log[2 * FPS + 1][1])

\* the shot speed of the latest segment snapshot with frame_num <= i, that of
\* the player who hit it; 0 when there is none
LatestShotSpeed(i) ==
    LET at == {k \in 1..Len(SegmentSnapshots) : SegmentSnapshots[k].frame_num <= i}
    IN  IF at = {} THEN Rat(0)
        ELSE LET k == CHOOSE x \in at : \A y \in at : y <= x
             IN  SegmentSnapshots[k].last_shot_speed[ShotAttribution[k].hitter]

\* C20: the last shot speed shown for frame i is the shot speed of the most
\* recent segment with a snapshot whose start is <= i, whichever player hit
\* it, and 0 before the first such segment.
C20_LastShotSpeedIsMostRecent ==
    (pc \in {"frames", "done"} /\ fi >= 1) => last_ball_speed = LatestShotSpeed(fi - 1)

\* the other player
Other(p) == 3 - p

\* the movement speed of player p over a segment: that of the distance between
\* its positions at start and end, 0 when one of the two is missing
MovementSpeed(a, p) ==
    IF /\ Has(player_mc[a.start], p)
       /\ a.end \in DOMAIN player_mc
       /\ Has(player_mc[a.end], p)
    THEN SpeedKmh(measure_distance(Get(player_mc[a.start], p),
                                   Get(player_mc[a.end], p)),
                  Norm(a.end - a.start, FPS))
    ELSE Rat(0)

\* among the first m segments with a snapshot, those whose opponent is p
OpponentSegments(m, p) == {j \in 1..m : ShotAttribution[j].opponent = p}

\* the sum of player p's movement speeds over the segments J
RECURSIVE MovementSum(_, _)
MovementSum(J, p) ==
    IF J = {} THEN Rat(0)
    ELSE LET j == CHOOSE x \in J : TRUE
         IN  RAdd(MovementSpeed(ShotAttribution[j], p), MovementSum(J \ {j}, p))

\* C21: in the snapshot of index m (the initial one has index 0) the two
\* shot counts add up to m and the other player's count is the number of
\* segments, among the first m, in which p was the opponent; in every row of
\* the timeline p's average movement speed is the mean of p's movement speeds
\* over exactly those segments (0 when there is none).
C21_MovementMeanOverOpponentSegments ==
    /\ \A k \in 1..Len(stats) :
           /\ stats[k].number_of_shots[1] + stats[k].number_of_shots[2] = k - 1
           /\ \A p \in PlayerIds :
                  Cardinality(OpponentSegments(k - 1, p))
                      = stats[k].number_of_shots[Other(p)]
    /\ \A k \in 1..Len(df) :
           \A p \in PlayerIds :
               LET J == OpponentSegments(
                            df[k].number_of_shots[1] + df[k].number_of_shots[2], p)
               IN  df[k].average_player_speed[p] =
                       IF J = {} THEN Rat(0)
                       ELSE RDiv(MovementSum(J, p), Rat(Cardinality(J)))

\* C21 witness: the timeline has a row in which player 2 has hit two shots
\* and player 1 none, and player 1's average movement speed is positive.
C21_Witness ==
    \E k \in 1..Len(df) :
        /\ df[k].number_of_shots[2] = 2
        /\ df[k].number_of_shots[1] = 0
        /\ RLt(Rat(0), df[k].average_player_speed[1])

\* the player whose movement fields the snapshot of index k updated: the one
\* whose shot count that snapshot left as it was
MovementUpdated(k) ==
    CHOOSE q \in PlayerIds :
        stats[k + 1].number_of_shots[q] = stats[k].number_of_shots[q]

\* C22: once both sweeps are over, every snapshot appended for a segment that
\* starts at frame s has a recovery record at s, and the single player key of
\* that record is the player whose movement fields the snapshot updated.
C22_SweepsAgree ==
    (pc # "stats" /\ exception = NoException) =>
        \A k \in 1..Len(ShotAttribution) :
            LET s == ShotAttribution[k].start
            IN  /\ stats[k + 1].frame_num = s
                /\ s \in DOMAIN recovery_times_by_frame
                /\ DOMAIN recovery_times_by_frame[s] = {MovementUpdated(k)}
                /\ stats[k + 1].number_of_shots[Other(MovementUpdated(k))]
                       = stats[k].number_of_shots[Other(MovementUpdated(k))] + 1

\* C22 witness: both sweeps are over; one segment has a snapshot and the
\* matching recovery record, and another has a recovery record but no snapshot.
C22_Witness ==
    /\ pc # "stats"
    /\ exception = NoException
    /\ Len(ShotAttribution) >= 1
    /\ \E s \in DOMAIN recovery_times_by_frame :
           \A k \in 1..Len(ShotAttribution) : ShotAttribution[k].start # s

\* both players and the ball have a position at every frame of the video
Dense ==
    \A f \in VideoFrames(total_frames) :
        /\ f \in DOMAIN player_mc
        /\ \A p \in PlayerIds : Has(player_mc[f], p)
        /\ f \in DOMAIN ball_mc

\* C23: on dense inputs utils.py main raises nothing and, after the same
\* number of iterations of a sweep, holds the same recovery_times_by_frame
\* and the same sequence of snapshots as inference.py analyze_video.
C23_VariantsAgreeOnDenseInputs ==
    Dense =>
        /\ utils_exception = NoException
        /\ exception = NoException
        /\ utils_ri = ri => utils_recovery_times_by_frame = recovery_times_by_frame
        /\ utils_si = si => utils_stats = stats

\* C23 witness: a dense input on which both variants have ended both sweeps
\* with two snapshots, an opponent that moved and an opponent that recovered.
C23_Witness ==
    /\ Dense
    /\ ri = Segments /\ si = Segments
    /\ utils_ri = Segments /\ utils_si = Segments
    /\ Len(utils_stats) = 3
    /\ \E p \in PlayerIds : RLt(Rat(0), utils_stats[3].total_player_speed[p])
    /\ \E s \in DOMAIN utils_recovery_times_by_frame :
           \E p \in DOMAIN utils_recovery_times_by_frame[s] :
               RLe(Rat(0), utils_recovery_times_by_frame[s][p])

====
